---- MODULE Spec2Model ----
(***************************************************************************)
(* Column virtualisation of fixed-data-table-2:                            *)
(* src/reducers/computeRenderedColumns.js.                                 *)
(*                                                                         *)
(* computeRenderedColumns(state, columnAnchor) picks the viewport and      *)
(* buffer column range for an anchor, computes the pixel offset of every   *)
(* column of the range and assigns each column a slot of columnsToRender   *)
(* through the grid's columnBufferSet.                                     *)
(***************************************************************************)
EXTENDS Integers, FiniteSets, Sequences, TLC

\* ------------------------------------------------------------------ bounds
MaxCols == 3        \* columnCount ranges over 0..MaxCols
MaxWidth == 2       \* every column width ranges over 0..MaxWidth
MaxAvail == 2       \* availableScrollWidth ranges over 0..MaxAvail
MaxOffset == 1      \* a forward anchor's firstOffset ranges over -MaxOffset..0
MaxScroll == 1      \* maxScrollX ranges over 0..MaxScroll

\* ------------------------------------------------- JavaScript's non-values
undefined == -100   \* an anchor field that is not set
null == -1          \* "no position" answer of the buffer set

VARIABLES
    columnCount,           \* columnWidths(state).scrollableColumns.length
    widths,                \* the width updateColumnWidth measures for each column
    availableScrollWidth,  \* columnWidths(state).availableScrollWidth
    maxScrollX,            \* columnWidths(state).maxScrollX
    state,                 \* the layout state returned by the latest call
    columnAnchor,          \* the anchor that call was given
    columnRange,           \* the range calculateRenderedColumnRange returned
    window,                \* <<startIdx, endIdx>> of computeRenderedColumnOffsets
    measured,              \* the indices that call passed to updateColumnWidth
    maxSpan                \* the largest renderedColumnsCount of any call so far

vars == <<columnCount, widths, availableScrollWidth, maxScrollX, state,
          columnAnchor, columnRange, window, measured, maxSpan>>

\* ----------------------------------------------------------------- helpers
Min(a, b) == IF a <= b THEN a ELSE b
Max(a, b) == IF a >= b THEN a ELSE b

SetMin(S) == CHOOSE x \in S : \A y \in S : x <= y
SetMax(S) == CHOOSE x \in S : \A y \in S : x >= y

EmptyMap == [x \in {} |-> 0]

\* object[key]: undefined when the object has no such key
at(object, key) == IF key \in DOMAIN object THEN object[key] ELSE undefined

\* a - b: NaN, written undefined here, when a is undefined
minus(a, b) == IF a = undefined THEN undefined ELSE a - b

\* a + b, likewise
plus(a, b) == IF a = undefined THEN undefined ELSE a + b

\* lodash/clamp(number, lower, upper): NaN stays NaN
clamp(number, lower, upper) ==
    IF number = undefined THEN undefined
    ELSE LET n1 == IF number <= upper THEN number ELSE upper
         IN  IF n1 >= lower THEN n1 ELSE lower

\* ------------------------------------------------ PrefixIntervalTree (store)
\* get(index): the stored width, 0 if never recorded
get(tree, index) == IF index \in DOMAIN tree THEN tree[index] ELSE 0

\* sumUntil(end): the sum of the stored widths of the indices below end
RECURSIVE sumUntil(_, _)
sumUntil(tree, end) ==
    IF end <= 0 THEN 0 ELSE sumUntil(tree, end - 1) + get(tree, end - 1)

\* updateColumnWidth(state, columnIdx): the measured width of the column, which
\* it also records in the offset store
updateColumnWidth(columnIdx) ==
    IF columnIdx \in DOMAIN widths THEN widths[columnIdx] ELSE 0

recordWidths(tree, touched) ==
    [i \in DOMAIN tree |-> IF i \in touched THEN updateColumnWidth(i) ELSE tree[i]]

\* --------------------------------------------- IntegerBufferSet (allocator)
\* valueToPosition: tracked column -> slot;  size: number of slots handed out
getValuePosition(bufferSet, value) ==
    IF value \in DOMAIN bufferSet.valueToPosition
    THEN bufferSet.valueToPosition[value]
    ELSE null

getSize(bufferSet) == bufferSet.size

getNewPositionForValue(bufferSet, value) ==
    [position |-> bufferSet.size,
     bufferSet |->
        [valueToPosition |->
            [v \in DOMAIN bufferSet.valueToPosition \cup {value} |->
                IF v = value THEN bufferSet.size
                ELSE bufferSet.valueToPosition[v]],
         size |-> bufferSet.size + 1]]

replaceFurthestValuePosition(bufferSet, lowValue, highValue, newValue) ==
    LET tracked == DOMAIN bufferSet.valueToPosition
    IN  IF tracked = {}
        THEN [position |-> null, bufferSet |-> bufferSet]
        ELSE
          LET minValue == SetMin(tracked)
              maxValue == SetMax(tracked)
          IN  IF minValue >= lowValue /\ maxValue <= highValue
              THEN [position |-> null, bufferSet |-> bufferSet]
              ELSE
                LET valueToReplace ==
                        IF lowValue - minValue > maxValue - highValue
                        THEN minValue ELSE maxValue
                    position == bufferSet.valueToPosition[valueToReplace]
                IN  [position |-> position,
                     bufferSet |->
                        [valueToPosition |->
                            [v \in (tracked \ {valueToReplace}) \cup {newValue} |->
                                IF v = newValue THEN position
                                ELSE bufferSet.valueToPosition[v]],
                         size |-> bufferSet.size]]

\* ------------------------------------------------------- addColumnToBuffer
\* addColumnToBuffer that does not look the column up first
addColumnToBuffer_noReuse(columnIdx, columnBufferSet, startRange, endRange, maxBufferSize) ==
    LET evicted ==
            IF getSize(columnBufferSet) >= maxBufferSize
            THEN replaceFurthestValuePosition(columnBufferSet, startRange,
                                              endRange - 1, columnIdx)
            ELSE [position |-> null, bufferSet |-> columnBufferSet]
    IN  IF evicted.position = null
        THEN getNewPositionForValue(evicted.bufferSet, columnIdx)
        ELSE evicted

\* addColumnToBuffer that evicts only when the set is over its capacity
addColumnToBuffer_strictCapacity(columnIdx, columnBufferSet, startRange, endRange, maxBufferSize) ==
    LET found == getValuePosition(columnBufferSet, columnIdx)
        evicted ==
            IF found = null /\ getSize(columnBufferSet) > maxBufferSize
            THEN replaceFurthestValuePosition(columnBufferSet, startRange,
                                              endRange - 1, columnIdx)
            ELSE [position |-> found, bufferSet |-> columnBufferSet]
    IN  IF evicted.position = null
        THEN getNewPositionForValue(evicted.bufferSet, columnIdx)
        ELSE evicted

\* addColumnToBuffer that hands endRange itself to the eviction as the high end
addColumnToBuffer_openWindow(columnIdx, columnBufferSet, startRange, endRange, maxBufferSize) ==
    LET found == getValuePosition(columnBufferSet, columnIdx)
        evicted ==
            IF found = null /\ getSize(columnBufferSet) >= maxBufferSize
            THEN replaceFurthestValuePosition(columnBufferSet, startRange,
                                              endRange, columnIdx)
            ELSE [position |-> found, bufferSet |-> columnBufferSet]
    IN  IF evicted.position = null
        THEN getNewPositionForValue(evicted.bufferSet, columnIdx)
        ELSE evicted

addColumnToBuffer(columnIdx, columnBufferSet, startRange, endRange, maxBufferSize) ==
    LET found == getValuePosition(columnBufferSet, columnIdx)
        evicted ==
            IF found = null /\ getSize(columnBufferSet) >= maxBufferSize
            THEN replaceFurthestValuePosition(columnBufferSet, startRange,
                                              endRange - 1, columnIdx)
            ELSE [position |-> found, bufferSet |-> columnBufferSet]
    IN  IF evicted.position = null
        THEN getNewPositionForValue(evicted.bufferSet, columnIdx)
        ELSE evicted

\* --------------------------------------------- calculateRenderedColumnRange
bufferColumnCount == 0

\* the guard of line 69 without its width test
isDegenerate_columnsOnly == columnCount = 0

\* line 69: nothing to lay out
isDegenerate == availableScrollWidth = 0 \/ columnCount = 0

\* lines 83-86 left out: the anchor is used as given
clampAnchor_none(anchor) == anchor.lastIndex

\* lines 83-86 with > for >=
clampAnchor_strict(anchor) ==
    IF anchor.firstIndex > columnCount \/ anchor.lastIndex > columnCount
    THEN columnCount - 1
    ELSE anchor.lastIndex

\* lines 83-86 with the last column taken to be out of range too
clampAnchor_offByOne(anchor) ==
    IF anchor.firstIndex >= columnCount - 1 \/ anchor.lastIndex >= columnCount - 1
    THEN columnCount - 1
    ELSE anchor.lastIndex

\* lines 83-86: the lastIndex the walk uses
clampAnchor(anchor) ==
    IF anchor.firstIndex >= columnCount \/ anchor.lastIndex >= columnCount
    THEN columnCount - 1
    ELSE anchor.lastIndex

\* the while loop with <= for <: it walks one column past a filled viewport
RECURSIVE walkViewport_inclusive(_, _, _, _, _)
walkViewport_inclusive(columnIdx, endIdy, totalWidth, step, touched) ==
    IF columnIdx < columnCount /\ columnIdx >= 0 /\ totalWidth <= availableScrollWidth
    THEN walkViewport_inclusive(columnIdx + step, columnIdx,
                                totalWidth + updateColumnWidth(columnIdx), step,
                                touched \cup {columnIdx})
    ELSE [endIdy |-> endIdy, totalWidth |-> totalWidth, touched |-> touched]

\* the walk with columnIdx <= columnCount as its upper guard
RECURSIVE walkViewport_pastEnd(_, _, _, _, _)
walkViewport_pastEnd(columnIdx, endIdy, totalWidth, step, touched) ==
    IF columnIdx <= columnCount /\ columnIdx >= 0 /\ totalWidth < availableScrollWidth
    THEN walkViewport_pastEnd(columnIdx + step, columnIdx,
                              totalWidth + updateColumnWidth(columnIdx), step,
                              touched \cup {columnIdx})
    ELSE [endIdy |-> endIdy, totalWidth |-> totalWidth, touched |-> touched]

\* the while loop of lines 102-107; touched collects the measured indices
RECURSIVE walkViewport(_, _, _, _, _)
walkViewport(columnIdx, endIdy, totalWidth, step, touched) ==
    IF columnIdx < columnCount /\ columnIdx >= 0 /\ totalWidth < availableScrollWidth
    THEN walkViewport(columnIdx + step, columnIdx,
                      totalWidth + updateColumnWidth(columnIdx), step,
                      touched \cup {columnIdx})
    ELSE [endIdy |-> endIdy, totalWidth |-> totalWidth, touched |-> touched]

\* line 126 without Math.min
backwardOffset_unbounded(totalWidth) == availableScrollWidth - totalWidth

\* lines 125-127: the offset that puts the last column at the viewport's end
backwardOffset(totalWidth) == Min(availableScrollWidth - totalWidth, 0)

\* returns the state as altered, the range and the measured indices
calculateRenderedColumnRange(st, anchor) ==
    IF isDegenerate
    THEN [state |-> [st EXCEPT !.firstColumnIndex = 0,
                               !.endColumnIndex = 0,
                               !.firstColumnOffset = 0],
          range |-> [endBufferCol |-> 0, endViewportCol |-> 0,
                     firstBufferCol |-> 0, firstViewportCol |-> 0],
          touched |-> {}]
    ELSE
      LET firstIndex == anchor.firstIndex
          lastIndex == clampAnchor(anchor)
          step == IF lastIndex # undefined THEN -1 ELSE 1
          startIdy == IF lastIndex # undefined THEN lastIndex ELSE firstIndex
          startWidth == IF lastIndex # undefined THEN 0 ELSE anchor.firstOffset
          walk == walkViewport(startIdy, startIdy, startWidth, step, {})
          endIdy == walk.endIdy
          totalWidth == walk.totalWidth
          firstViewportCol == Min(startIdy, endIdy)
          firstBufferCol == Max(firstViewportCol - bufferColumnCount, 0)
          leading == firstBufferCol .. (firstViewportCol - 1)
          endViewportCol == Max(startIdy, endIdy) + 1
          endBufferCol == Min(endViewportCol + bufferColumnCount, columnCount)
          trailing == endViewportCol .. (endBufferCol - 1)
          firstOffset == IF lastIndex # undefined
                         THEN backwardOffset(totalWidth)
                         ELSE anchor.firstOffset
          touched == walk.touched \cup leading \cup trailing
      IN  [state |-> [st EXCEPT !.firstColumnIndex = firstViewportCol,
                                !.endColumnIndex = endViewportCol,
                                !.firstColumnOffset = firstOffset,
                                !.columnOffsetIntervalTree =
                                    recordWidths(st.columnOffsetIntervalTree, touched)],
           range |-> [endBufferCol |-> endBufferCol,
                      endViewportCol |-> endViewportCol,
                      firstBufferCol |-> firstBufferCol,
                      firstViewportCol |-> firstViewportCol],
           touched |-> touched]

\* --------------------------------------------- computeRenderedColumnOffsets
\* the for loop of lines 185-194; out.steps lists its calls of addColumnToBuffer
RECURSIVE offsetsLoop(_, _, _, _, _, _, _, _)
offsetsLoop(columnIdx, startIdx, endIdx, renderedColumnsCount, tree, runningOffset, out, bufferSet) ==
    IF columnIdx < endIdx
    THEN
      LET added == addColumnToBuffer(columnIdx, bufferSet, startIdx, endIdx,
                                     renderedColumnsCount)
          columnOffsets == [i \in DOMAIN out.columnOffsets \cup {columnIdx} |->
                              IF i = columnIdx THEN runningOffset
                              ELSE out.columnOffsets[i]]
          columns == [p \in DOMAIN out.columns \cup {added.position} |->
                        IF p = added.position THEN columnIdx ELSE out.columns[p]]
      IN  offsetsLoop(columnIdx + 1, startIdx, endIdx, renderedColumnsCount, tree,
                      runningOffset + get(tree, columnIdx),
                      [columns |-> columns, columnOffsets |-> columnOffsets,
                       steps |-> Append(out.steps,
                                        [columnIdx |-> columnIdx,
                                         before |-> bufferSet,
                                         after |-> added.bufferSet,
                                         position |-> added.position,
                                         startRange |-> startIdx,
                                         endRange |-> endIdx,
                                         maxBufferSize |-> renderedColumnsCount])],
                      added.bufferSet)
    ELSE [columns |-> out.columns, columnOffsets |-> out.columnOffsets,
          steps |-> out.steps, bufferSet |-> bufferSet]

\* line 182 with the running offset started at 0
seedOffset_zero(tree, startIdx) == 0

\* line 182: the offset of the window's first column
seedOffset(tree, startIdx) == sumUntil(tree, startIdx)

\* the window without its last column
iterationWindow_short(range, viewportOnly) ==
    IF range.endBufferCol - range.firstBufferCol = 0 THEN <<0, 0>>
    ELSE <<IF viewportOnly THEN range.firstViewportCol ELSE range.firstBufferCol,
           (IF viewportOnly THEN range.endViewportCol ELSE range.endBufferCol) - 1>>

\* lines 174-175 (and the empty window of the early return, lines 168-172)
iterationWindow(range, viewportOnly) ==
    IF range.endBufferCol - range.firstBufferCol = 0 THEN <<0, 0>>
    ELSE <<IF viewportOnly THEN range.firstViewportCol ELSE range.firstBufferCol,
           IF viewportOnly THEN range.endViewportCol ELSE range.endBufferCol>>

\* the walk that writes into the columnsToRender of the state given
walkWindow_keepColumns(st, range, viewportOnly) ==
    LET startIdx == iterationWindow(range, viewportOnly)[1]
        endIdx == iterationWindow(range, viewportOnly)[2]
        tree == st.columnOffsetIntervalTree
    IN  offsetsLoop(startIdx, startIdx, endIdx,
                    range.endBufferCol - range.firstBufferCol,
                    tree, seedOffset(tree, startIdx),
                    [columns |-> st.columnsToRender, columnOffsets |-> EmptyMap,
                     steps |-> <<>>],
                    st.columnBufferSet)

\* lines 177-194: the outputs of the walk over the window, started empty
walkWindow(st, range, viewportOnly) ==
    LET startIdx == iterationWindow(range, viewportOnly)[1]
        endIdx == iterationWindow(range, viewportOnly)[2]
        tree == st.columnOffsetIntervalTree
    IN  offsetsLoop(startIdx, startIdx, endIdx,
                    range.endBufferCol - range.firstBufferCol,
                    tree, seedOffset(tree, startIdx),
                    [columns |-> EmptyMap, columnOffsets |-> EmptyMap,
                     steps |-> <<>>],
                    st.columnBufferSet)

computeRenderedColumnOffsets(st, range, viewportOnly) ==
    LET renderedColumnsCount == range.endBufferCol - range.firstBufferCol
    IN  IF renderedColumnsCount = 0
        THEN [st EXCEPT !.columnOffsets = EmptyMap, !.columnsToRender = EmptyMap]
        ELSE
          LET done == walkWindow(st, range, viewportOnly)
          IN  [st EXCEPT !.columnsToRender = done.columns,
                         !.columnOffsets = done.columnOffsets,
                         !.columnBufferSet = done.bufferSet]

\* --------------------------------------------------- computeRenderedColumns
\* computeRenderedColumns with the first column's offset added, not subtracted
computeRenderedColumns_plusOffset(st, anchor) ==
    LET ranged == calculateRenderedColumnRange(st, anchor)
        range == ranged.range
        newState == computeRenderedColumnOffsets(ranged.state, range,
                                                 ranged.state.scrolling)
        scrollX == IF range.firstViewportCol # range.endViewportCol
                   THEN plus(at(newState.columnOffsets, range.firstViewportCol),
                             newState.firstColumnOffset)
                   ELSE st.scrollX
    IN  [newState EXCEPT !.scrollX = clamp(scrollX, 0, maxScrollX)]

computeRenderedColumns(st, anchor) ==
    LET ranged == calculateRenderedColumnRange(st, anchor)
        range == ranged.range
        newState == computeRenderedColumnOffsets(ranged.state, range,
                                                 ranged.state.scrolling)
        scrollX == IF range.firstViewportCol # range.endViewportCol
                   THEN minus(at(newState.columnOffsets, range.firstViewportCol),
                              newState.firstColumnOffset)
                   ELSE st.scrollX
    IN  [newState EXCEPT !.scrollX = clamp(scrollX, 0, maxScrollX)]

\* the calls of addColumnToBuffer (line 192) that
\* computeRenderedColumns(st, anchor) makes, in order
slotSteps(st, anchor) ==
    LET ranged == calculateRenderedColumnRange(st, anchor)
    IN  IF ranged.range.endBufferCol - ranged.range.firstBufferCol = 0
        THEN <<>>
        ELSE walkWindow(ranged.state, ranged.range, ranged.state.scrolling).steps

\* const newState = state: no second object, the writes land on the one given
cloneState_alias(st) == [state |-> st, newState |-> st, written |-> "state"]

\* line 21, Object.assign({}, state): newState is a second object that starts
\* with the fields of state; `written` names the object the call assigns to
cloneState(st) == [state |-> st, newState |-> st, written |-> "newState"]

\* lines 19-38 on the two objects: every field assignment of the call (lines
\* 129-131, 197-198, 35) lands on the object newState names, and the objects
\* that both share, columnBufferSet and columnOffsetIntervalTree, are altered
\* in place (lines 120, 192).  `state` is the object given as it is after
\* the call, `returned` the object the call returns.
callOnObjects(st, anchor) ==
    LET objects == cloneState(st)
        result == computeRenderedColumns(st, anchor)
        inPlace(o) ==
            [o EXCEPT !.columnBufferSet = result.columnBufferSet,
                      !.columnOffsetIntervalTree = result.columnOffsetIntervalTree]
    IN  [state |-> IF objects.written = "state"
                   THEN result
                   ELSE inPlace(objects.state),
         returned |-> result]

\* ------------------------------------------------------------------ anchors
forwardAnchor(firstIndex, firstOffset) ==
    [firstIndex |-> firstIndex, firstOffset |-> firstOffset, lastIndex |-> undefined]

backwardAnchor(lastIndex) ==
    [firstIndex |-> undefined, firstOffset |-> undefined, lastIndex |-> lastIndex]

noAnchor == [firstIndex |-> undefined, firstOffset |-> undefined,
             lastIndex |-> undefined]

isBackward(anchor) == anchor.lastIndex # undefined
isForward(anchor) == anchor.firstIndex # undefined /\ anchor.lastIndex = undefined

\* -------------------------------------------------------------------- Init
\* a grid of up to MaxCols columns, each 0..MaxWidth wide (the widest first),
\* before its first call
Init ==
    /\ columnCount \in 0..MaxCols
    /\ \E narrower \in [0..(columnCount - 1) -> 0..MaxWidth] :
         widths = [i \in 0..(columnCount - 1) |-> MaxWidth - narrower[i]]
    /\ \E narrower \in 0..MaxAvail : availableScrollWidth = MaxAvail - narrower
    /\ maxScrollX \in 0..MaxScroll
    /\ \E scrollX \in {0, MaxScroll + 1} :
         state = [scrollX |-> scrollX,
                  scrolling |-> FALSE,
                  firstColumnIndex |-> 0,
                  endColumnIndex |-> 0,
                  firstColumnOffset |-> 0,
                  columnOffsets |-> EmptyMap,
                  columnsToRender |-> EmptyMap,
                  columnOffsetIntervalTree |-> [i \in 0..(columnCount - 1) |-> 0],
                  columnBufferSet |-> [valueToPosition |-> EmptyMap, size |-> 0]]
    /\ columnAnchor = noAnchor
    /\ columnRange = [endBufferCol |-> 0, endViewportCol |-> 0,
                      firstBufferCol |-> 0, firstViewportCol |-> 0]
    /\ window = <<0, 0>>
    /\ measured = {}
    /\ maxSpan = 0

\* ----------------------------------------------------------------- actions
\* the state a call is given: the latest state with the caller's scrolling flag
given(scrolling) == [state EXCEPT !.scrolling = scrolling]

\* one call computeRenderedColumns(given(scrolling), anchor)
Reflow(scrolling, anchor) ==
    LET ranged == calculateRenderedColumnRange(given(scrolling), anchor)
    IN  /\ state' = computeRenderedColumns(given(scrolling), anchor)
        /\ columnAnchor' = anchor
        /\ columnRange' = ranged.range
        /\ window' = iterationWindow(ranged.range, scrolling)
        /\ measured' = ranged.touched
        /\ maxSpan' = Max(maxSpan, ranged.range.endBufferCol - ranged.range.firstBufferCol)
        /\ UNCHANGED <<columnCount, widths, availableScrollWidth, maxScrollX>>

ReflowForward ==
    \E scrolling \in BOOLEAN, firstIndex \in 0..columnCount,
       firstOffset \in (-MaxOffset)..0 :
        Reflow(scrolling, forwardAnchor(firstIndex, firstOffset))

ReflowBackward ==
    \E scrolling \in BOOLEAN, lastIndex \in 0..columnCount :
        Reflow(scrolling, backwardAnchor(lastIndex))

Next == ReflowForward \/ ReflowBackward

Spec == Init /\ [][Next]_vars

\* ============================================================== properties
\* every anchor a caller passes within the bounds, in or out of range
Anchors ==
    {forwardAnchor(i, o) : i \in 0..columnCount, o \in (-MaxOffset)..0}
        \cup {backwardAnchor(k) : k \in 0..columnCount}

called == columnAnchor # noAnchor

\* no scrollable column or no width to show one in
nothingToLayOut == availableScrollWidth = 0 \/ columnCount = 0

outOfRange(anchor) ==
    anchor.firstIndex >= columnCount \/ anchor.lastIndex >= columnCount

\* columnsToRender.length: the highest occupied slot + 1
lengthOf(columns) ==
    IF DOMAIN columns = {} THEN 0 ELSE SetMax(DOMAIN columns) + 1

\* the slot of columnsToRender that holds column c
slotOf(columns, c) ==
    IF \E p \in DOMAIN columns : columns[p] = c
    THEN CHOOSE p \in DOMAIN columns : columns[p] = c
    ELSE null

windowCols(w) == w[1] .. (w[2] - 1)

spanSize(range) == range.endBufferCol - range.firstBufferCol

\* the sum of the measured widths of columns lo..hi
RECURSIVE sumWidths(_, _)
sumWidths(lo, hi) ==
    IF hi < lo THEN 0 ELSE widths[hi] + sumWidths(lo, hi - 1)

\* the columns tracked before a slot step
trackedBefore(step) == DOMAIN step.before.valueToPosition

\* the tracked columns outside the closed window [startRange, endRange - 1]
trackedOutside(step) ==
    {v \in trackedBefore(step) : v < step.startRange \/ v > step.endRange - 1}

\* how far column v lies outside the closed window
distanceOutside(step, v) ==
    IF v < step.startRange THEN step.startRange - v
    ELSE v - (step.endRange - 1)

\* the step is for an untracked column and the allocator is at its capacity
evictionDue(step) ==
    /\ step.columnIdx \notin trackedBefore(step)
    /\ getSize(step.before) >= step.maxBufferSize

\* the columns the latest call had to lay out: its viewport span when the
\* scrolling flag was true, its buffer span otherwise
latestWindow ==
    IF state.scrolling
    THEN columnRange.firstViewportCol .. (columnRange.endViewportCol - 1)
    ELSE columnRange.firstBufferCol .. (columnRange.endBufferCol - 1)

\* a and b agree on the layout fields a call writes
sameLayout(a, b) ==
    /\ a.scrollX = b.scrollX
    /\ a.firstColumnIndex = b.firstColumnIndex
    /\ a.endColumnIndex = b.endColumnIndex
    /\ a.firstColumnOffset = b.firstColumnOffset
    /\ a.columnOffsets = b.columnOffsets
    /\ a.columnsToRender = b.columnsToRender

\* ---------------------------------------------------------------------- C1
\* C1: the range of every call is ordered, firstBufferCol <= firstViewportCol
\* <= endViewportCol <= endBufferCol, and lies within [0, columnCount].
C1_RangeOrdered ==
    /\ 0 <= columnRange.firstBufferCol
    /\ columnRange.firstBufferCol <= columnRange.firstViewportCol
    /\ columnRange.firstViewportCol <= columnRange.endViewportCol
    /\ columnRange.endViewportCol <= columnRange.endBufferCol
    /\ columnRange.endBufferCol <= columnCount

\* a call anchored past the last column whose range ends at columnCount
C1_Witness ==
    /\ isForward(columnAnchor)
    /\ columnAnchor.firstIndex = columnCount
    /\ columnRange.firstViewportCol > 0
    /\ columnRange.endViewportCol - columnRange.firstViewportCol >= 2
    /\ columnRange.endBufferCol = columnCount

\* ---------------------------------------------------------------------- C2
\* C2: across two consecutive calls, a column that is in the iteration window
\* of both keeps its slot of columnsToRender.
C2_SlotStable ==
    [][\A c \in windowCols(window) \cap windowCols(window') :
          /\ slotOf(state.columnsToRender, c) # null
          /\ slotOf(state'.columnsToRender, c) = slotOf(state.columnsToRender, c)]_vars

\* a window whose columns are out of slot order: one of them kept the slot it
\* had in an earlier, different window
C2_Witness ==
    \E c, d \in windowCols(window) :
        /\ c < d
        /\ slotOf(state.columnsToRender, c) > slotOf(state.columnsToRender, d)

\* ---------------------------------------------------------------------- C3
\* C3 as stated: columnsToRender is never longer than the buffer span of the
\* call that produced it.
C3_LengthWithinSpan ==
    lengthOf(state.columnsToRender) <= spanSize(columnRange)

\* C3 as amended: columnsToRender is never longer than the largest buffer span
\* of any call made so far on the grid.
C3_LengthWithinLargestSpan ==
    lengthOf(state.columnsToRender) <= maxSpan

\* a call whose columnsToRender is longer than its own buffer span
C3_Witness ==
    /\ called
    /\ spanSize(columnRange) > 0
    /\ lengthOf(state.columnsToRender) > spanSize(columnRange)
    /\ lengthOf(state.columnsToRender) = maxSpan

\* ---------------------------------------------------------------------- C4
\* the range of the forward anchor made of the latest result
C4_Reanchored ==
    calculateRenderedColumnRange(
        state, forwardAnchor(state.firstColumnIndex, state.firstColumnOffset)).range

C4_SameSpan ==
    /\ C4_Reanchored.firstViewportCol = state.firstColumnIndex
    /\ C4_Reanchored.endViewportCol = state.endColumnIndex

C4_Filled ==
    /\ ~nothingToLayOut
    /\ sumWidths(state.firstColumnIndex, state.endColumnIndex - 1)
           >= availableScrollWidth
    /\ widths[state.endColumnIndex - 1] > 0

C5_ScrollX ==
    \A s \in BOOLEAN, a \in Anchors :
        LET r == computeRenderedColumns(given(s), a)
        IN  /\ r.scrollX >= 0
            /\ r.scrollX <= maxScrollX
            /\ IF r.firstColumnIndex # r.endColumnIndex
               THEN r.scrollX =
                        clamp(r.columnOffsets[r.firstColumnIndex] - r.firstColumnOffset,
                              0, maxScrollX)
               ELSE r.scrollX = clamp(state.scrollX, 0, maxScrollX)

\* a call that left scrollX above 0 and unclamped, at the offset of a viewport
\* that starts after column 0
C5_Witness ==
    /\ called
    /\ state.firstColumnIndex > 0
    /\ state.firstColumnIndex # state.endColumnIndex
    /\ state.scrollX > 0
    /\ state.scrollX <= maxScrollX
    /\ state.scrollX = state.columnOffsets[state.firstColumnIndex]
                           - state.firstColumnOffset

\* ---------------------------------------------------------------------- C6
\* C6: the offset of every column of the iteration window is the sum of the
\* stored widths of the columns before it, so consecutive offsets differ by
\* the stored width of the first of the two.
C6_OffsetsArePrefixSums ==
    \A i \in windowCols(window) :
        /\ i \in DOMAIN state.columnOffsets
        /\ state.columnOffsets[i] = sumUntil(state.columnOffsetIntervalTree, i)
        /\ (i + 1) \in windowCols(window) =>
              state.columnOffsets[i + 1] - state.columnOffsets[i]
                  = get(state.columnOffsetIntervalTree, i)

\* a window of two columns or more that starts after column 0, at an offset > 0
C6_Witness ==
    /\ window[1] > 0
    /\ window[2] - window[1] >= 2
    /\ state.columnOffsets[window[1]] > 0
    /\ state.columnOffsets[window[1] + 1] > state.columnOffsets[window[1]]

\* ---------------------------------------------------------------------- C7
C7_InRangeForward ==
    /\ isForward(columnAnchor)
    /\ columnAnchor.firstIndex < columnCount
    /\ columnAnchor.firstOffset <= 0

C7_StartsAtAnchor ==
    /\ state.firstColumnIndex = columnAnchor.firstIndex
    /\ state.firstColumnOffset = columnAnchor.firstOffset

\* C7 as stated: a forward anchor with firstIndex in range and firstOffset <= 0
\* gives firstColumnIndex = firstIndex and firstColumnOffset = firstOffset.
C7_ForwardAnchored ==
    C7_InRangeForward => C7_StartsAtAnchor

\* C7 as amended: the same, when availableScrollWidth is not 0.
C7_ForwardAnchoredWhenWide ==
    (C7_InRangeForward /\ availableScrollWidth # 0) => C7_StartsAtAnchor

\* a forward call anchored after column 0 with a negative offset
C7_Witness ==
    /\ C7_InRangeForward
    /\ availableScrollWidth # 0
    /\ columnAnchor.firstIndex > 0
    /\ columnAnchor.firstOffset < 0
    /\ state.endColumnIndex - state.firstColumnIndex >= 2

\* ---------------------------------------------------------------------- C8
C8_InRangeBackward ==
    /\ isBackward(columnAnchor)
    /\ columnAnchor.lastIndex < columnCount

C8_EndsAtAnchor ==
    LET W == sumWidths(state.firstColumnIndex, columnAnchor.lastIndex)
    IN  /\ state.endColumnIndex = columnAnchor.lastIndex + 1
        /\ state.firstColumnOffset = Min(availableScrollWidth - W, 0)
        /\ state.firstColumnOffset <= 0
        /\ W >= availableScrollWidth =>
              state.firstColumnOffset + W = availableScrollWidth

\* C8 as stated: a backward anchor with lastIndex in range gives endColumnIndex
\* = lastIndex + 1 and firstColumnOffset = min(availableScrollWidth - W, 0), W
\* the width of the viewport columns.
C8_BackwardAnchored ==
    C8_InRangeBackward => C8_EndsAtAnchor

\* C8 as amended: the same, when availableScrollWidth is not 0.
C8_BackwardAnchoredWhenWide ==
    (C8_InRangeBackward /\ availableScrollWidth # 0) => C8_EndsAtAnchor

\* a backward call whose columns overshoot the viewport
C8_Witness ==
    /\ C8_InRangeBackward
    /\ availableScrollWidth # 0
    /\ state.firstColumnOffset < 0
    /\ state.firstColumnIndex > 0
    /\ state.endColumnIndex - state.firstColumnIndex >= 2

\* ---------------------------------------------------------------------- C9
\* C9: with no scrollable column or no available width, a call returns
\* firstColumnIndex = endColumnIndex = 0, firstColumnOffset = 0, no offsets, no
\* columns to render and the given scrollX clamped; it measures no column and
\* leaves the buffer set as it was.
C9_NothingToLayOut ==
    nothingToLayOut =>
        \A s \in BOOLEAN, a \in Anchors :
            LET r == computeRenderedColumns(given(s), a)
            IN  /\ r.firstColumnIndex = 0
                /\ r.endColumnIndex = 0
                /\ r.firstColumnOffset = 0
                /\ r.columnOffsets = EmptyMap
                /\ r.columnsToRender = EmptyMap
                /\ r.scrollX = clamp(state.scrollX, 0, maxScrollX)
                /\ calculateRenderedColumnRange(given(s), a).touched = {}
                /\ r.columnBufferSet = state.columnBufferSet
                /\ r.columnOffsetIntervalTree = state.columnOffsetIntervalTree

\* a call on a grid with columns and no width, given a scrollX above maxScrollX
C9_Witness ==
    /\ called
    /\ availableScrollWidth = 0
    /\ columnCount > 1
    /\ columnAnchor.lastIndex = columnCount - 1
    /\ state.endColumnIndex = 0
    /\ state.scrollX = maxScrollX
    /\ maxScrollX > 0

\* --------------------------------------------------------------------- C10
\* a call with an out-of-range anchor returns what the call with the backward
\* anchor at the last column returns for the same given state
C10_SameAsEndAnchor ==
    \A s \in BOOLEAN, a \in Anchors :
        outOfRange(a) =>
            computeRenderedColumns(given(s), a)
                = computeRenderedColumns(given(s), backwardAnchor(columnCount - 1))

\* C10 as stated: an out-of-range anchor is handled as the backward anchor at
\* the last column, and the viewport ends at columnCount.
C10_ClampedToEnd ==
    /\ C10_SameAsEndAnchor
    /\ outOfRange(columnAnchor) => state.endColumnIndex = columnCount

\* C10 as amended: the viewport ends at columnCount when availableScrollWidth
\* is not 0.
C10_ClampedToEndWhenWide ==
    /\ C10_SameAsEndAnchor
    /\ (outOfRange(columnAnchor) /\ availableScrollWidth # 0) =>
          state.endColumnIndex = columnCount

\* a forward call anchored past the last column that laid out its last columns
C10_Witness ==
    /\ isForward(columnAnchor)
    /\ outOfRange(columnAnchor)
    /\ state.endColumnIndex = columnCount
    /\ state.firstColumnIndex > 0
    /\ state.firstColumnOffset < 0

C13_ShortestRun ==
    (C7_InRangeForward /\ availableScrollWidth > 0) =>
        LET first == columnRange.firstViewportCol
            end == columnRange.endViewportCol
            firstOffset == columnAnchor.firstOffset
        IN  /\ \/ firstOffset + sumWidths(first, end - 1) >= availableScrollWidth
               \/ end = columnCount
            /\ firstOffset + sumWidths(first, end - 2) < availableScrollWidth

\* a forward call whose viewport takes two columns to fill and stops before
\* the last column
C13_Witness ==
    /\ C7_InRangeForward
    /\ availableScrollWidth > 0
    /\ columnRange.endViewportCol = columnRange.firstViewportCol + 2
    /\ columnRange.endViewportCol < columnCount
    /\ columnAnchor.firstOffset < 0
    /\ widths[columnRange.firstViewportCol] > 0
    /\ columnAnchor.firstOffset
         + sumWidths(columnRange.firstViewportCol, columnRange.endViewportCol - 1)
        >= availableScrollWidth

\* --------------------------------------------------------------------- C14
\* C14: in every slot step of every call, when the column is untracked and
\* the tracked count has reached the buffer span size, the column gets the
\* slot of a tracked column that lies outside the closed window
\* [windowStart, windowEnd - 1] at the greatest index-distance; that column
\* is no longer tracked, the slot index is the one it had, no new slot is
\* made, and every tracked column inside the window keeps its slot.
C14_FurthestEvicted ==
    \A s \in BOOLEAN, a \in Anchors :
        LET steps == slotSteps(given(s), a)
        IN  \A k \in DOMAIN steps :
              evictionDue(steps[k]) =>
                \E v \in trackedOutside(steps[k]) :
                    /\ \A u \in trackedOutside(steps[k]) :
                           distanceOutside(steps[k], u) <= distanceOutside(steps[k], v)
                    /\ steps[k].position = steps[k].before.valueToPosition[v]
                    /\ getValuePosition(steps[k].after, v) = null
                    /\ getValuePosition(steps[k].after, steps[k].columnIdx)
                         = steps[k].position
                    /\ getSize(steps[k].after) = getSize(steps[k].before)
                    /\ \A w \in trackedBefore(steps[k]) \ {v} :
                           getValuePosition(steps[k].after, w)
                             = getValuePosition(steps[k].before, w)

\* a state from which one call takes a slot over while two tracked columns
\* lie outside the window at different distances, and another takes a slot
\* over while a tracked column lies inside the window
C14_Witness ==
    /\ called
    /\ \E s \in BOOLEAN, a \in Anchors :
        LET steps == slotSteps(given(s), a)
        IN  \E k \in DOMAIN steps :
              /\ evictionDue(steps[k])
              /\ \E u, v \in trackedOutside(steps[k]) :
                    distanceOutside(steps[k], u) < distanceOutside(steps[k], v)
    /\ \E s \in BOOLEAN, a \in Anchors :
        LET steps == slotSteps(given(s), a)
        IN  \E k \in DOMAIN steps :
              /\ evictionDue(steps[k])
              /\ trackedOutside(steps[k]) # {}
              /\ trackedBefore(steps[k]) \ trackedOutside(steps[k]) # {}

\* --------------------------------------------------------------------- C16
\* C16: every column index a call measures, in the viewport walk or in the
\* buffer walks, lies in [0, columnCount), also when the viewport has no
\* width, when the anchor lies past the last column and when the walk runs
\* out of columns before the viewport is full.
C16_MeasuredInBounds == measured \subseteq 0 .. (columnCount - 1)

\* a call anchored past the last column that walks back over every column
\* and runs out of them before the viewport is full
C16_Witness ==
    /\ called
    /\ outOfRange(columnAnchor)
    /\ columnCount >= 2
    /\ measured = 0 .. (columnCount - 1)
    /\ sumWidths(0, columnCount - 1) < availableScrollWidth

\* --------------------------------------------------------------------- C17
\* C17: after every call the indices at which columnOffsets is defined are
\* exactly the columns of the iteration window, the viewport span when the
\* scrolling flag is true and the buffer span otherwise, and in both cases
\* every slot step is handed the buffer span size as its capacity.
C17_OffsetsOnWindow ==
    \A s \in BOOLEAN, a \in Anchors :
        LET range == calculateRenderedColumnRange(given(s), a).range
            result == computeRenderedColumns(given(s), a)
            steps == slotSteps(given(s), a)
        IN  /\ DOMAIN result.columnOffsets =
                  IF s THEN range.firstViewportCol .. (range.endViewportCol - 1)
                  ELSE range.firstBufferCol .. (range.endBufferCol - 1)
            /\ \A k \in DOMAIN steps :
                  steps[k].maxBufferSize = spanSize(range)

\* a state from which a call with the scrolling flag true and a call with it
\* false each lay out a window of two columns that does not start at column 0
C17_Witness ==
    /\ called
    /\ \A s \in BOOLEAN : \E a \in Anchors :
        LET range == calculateRenderedColumnRange(given(s), a).range
            result == computeRenderedColumns(given(s), a)
        IN  /\ range.firstViewportCol > 0
            /\ spanSize(range) = 2
            /\ DOMAIN result.columnOffsets =
                  range.firstViewportCol .. (range.firstViewportCol + 1)
            /\ Len(slotSteps(given(s), a)) = 2

\* --------------------------------------------------------------------- C18
\* C18: the columnsToRender of the latest result holds every column of the
\* iteration window in exactly one slot and holds no other column: nothing
\* of an earlier window remains in it.
C18_ExactlyWindow ==
    /\ {state.columnsToRender[p] : p \in DOMAIN state.columnsToRender}
         = latestWindow
    /\ \A p, q \in DOMAIN state.columnsToRender :
          state.columnsToRender[p] = state.columnsToRender[q] => p = q

\* a call with a window smaller than an earlier one, whose only column sits
\* in a slot other than slot 0
C18_Witness ==
    /\ called
    /\ maxSpan > spanSize(columnRange)
    /\ latestWindow # {}
    /\ lengthOf(state.columnsToRender) > Cardinality(DOMAIN state.columnsToRender)
    /\ {state.columnsToRender[p] : p \in DOMAIN state.columnsToRender}
         = latestWindow

\* --------------------------------------------------------------------- C19
\* C19: after any sequence of calls the allocator's count, which is the
\* number of columns it tracks, equals the largest buffer span size of any
\* call so far; a slot step makes a new slot only while the count is below
\* the span size of its call.
C19_CountIsLargestSpan ==
    /\ getSize(state.columnBufferSet) = maxSpan
    /\ Cardinality(DOMAIN state.columnBufferSet.valueToPosition) = maxSpan
    /\ \A s \in BOOLEAN, a \in Anchors :
        LET steps == slotSteps(given(s), a)
        IN  \A k \in DOMAIN steps :
              getSize(steps[k].after) # getSize(steps[k].before) =>
                getSize(steps[k].before) < steps[k].maxBufferSize

\* a call with a window of one column after a call with two: the count
\* stays at two, and a call with a window of three columns then grows it
C19_Witness ==
    /\ called
    /\ spanSize(columnRange) = 1
    /\ maxSpan = 2
    /\ getSize(state.columnBufferSet) = 2
    /\ \E s \in BOOLEAN, a \in Anchors :
        LET steps == slotSteps(given(s), a)
        IN  /\ Len(steps) = 3
            /\ \E k \in DOMAIN steps :
                  getSize(steps[k].after) = 3 /\ getSize(steps[k].before) = 2

====
